---- MODULE Spec2Model ----
(***************************************************************************)
(* Iris Classification API (backend/main.py): the module-level artifact    *)
(* loader and the six request handlers, as a state machine.                *)
(*                                                                         *)
(* Measurements are in hundredths of a centimetre (5.1 cm = 510), so that  *)
(* the schema bounds 0 and 10 are 0 and 1000 and -0.01 / 10.01 are -1 and  *)
(* 1001.  Probabilities are in percent.                                    *)
(***************************************************************************)
EXTENDS Integers, Sequences, FiniteSets, TLC

VARIABLES
    pc,         \* position of the module-level loader, then "serving"
    dt_model,   \* global dt_model
    lr_model,   \* global lr_model
    scaler,     \* global scaler
    metadata,   \* global metadata
    request,    \* the body of the request handled last
    response,   \* the HTTP response to it
    calls       \* the calls made on the scaler and the models while handling it

vars == <<pc, dt_model, lr_model, scaler, metadata, request, response, calls>>

globals == <<dt_model, lr_model, scaler, metadata>>

\* ------------------------------------------------------------------ bounds

\* Longest batch the model submits to /predict/batch.
MaxBatch == 3

\* ------------------------------------------------------------ values

\* Python's None, the "unavailable" sentinel of line 42.
None == [kind |-> "None"]

\* A module-level name that no assignment has bound yet.
Unbound == [kind |-> "unbound"]

\* ge=0 and le=10 of the Field declarations, in hundredths.
FieldGe == 0
FieldLe == 1000

\* Classifiers a model file can deserialize to.  Each is a two-threshold
\* rule over (petal_length, petal_width) of the vector it is given, labelled
\* by its classes_; `broken` names a method that raises.
Classifier(name, classes, thr, broken) ==
    [kind |-> "model", name |-> name, classes |-> classes, thr |-> thr,
     broken |-> broken]

DTArtifacts ==
    { Classifier("dt", <<0, 1, 2>>, <<245, 175>>, "none"),
      Classifier("dt", <<-1, 0, 1>>, <<245, 175>>, "none"),
      Classifier("dt", <<1, 2, 3>>, <<245, 175>>, "none"),
      Classifier("dt", <<0, 1, 2>>, <<245, 175>>, "predict"),
      Classifier("dt", <<0, 1, 2>>, <<245, 175>>, "predict_proba") }

LRArtifacts ==
    { Classifier("lr", <<0, 1, 2>>, <<-75, 70>>, "none"),
      Classifier("lr", <<-3, -2, -1>>, <<-75, 70>>, "none"),
      Classifier("lr", <<0, 1, 2>>, <<-75, 70>>, "predict") }

\* Scalers scaler.pkl can deserialize to: a fitted StandardScaler, or one
\* whose transform raises.
ScalerArtifacts ==
    { [kind |-> "scaler", mean |-> <<584, 305, 376, 120>>,
       scale |-> <<83, 43, 176, 76>>, broken |-> b] : b \in BOOLEAN }

ModelMetrics ==
    [test_accuracy |-> 96, precision |-> 96, recall |-> 96, f1_score |-> 96]

MetaModels ==
    << [name |-> "decision_tree",
        data |-> [requires_scaling |-> FALSE, metrics |-> ModelMetrics]],
       [name |-> "logistic_regression",
        data |-> [requires_scaling |-> TRUE, metrics |-> ModelMetrics]] >>

\* Documents metadata.json can hold.
MetadataDocs ==
    { [kind |-> "dict", models |-> MetaModels,
       target_names |-> <<"setosa", "versicolor", "virginica">>],
      [kind |-> "dict", models |-> MetaModels,
       target_names |-> <<"setosa", "versicolor">>],
      [kind |-> "dict", models |-> MetaModels] }

\* No request is being handled; no response is waiting to be sent.
NoRequest == [endpoint |-> "", body |-> <<>>]
NoResponse == [endpoint |-> "", status |-> 0, body |-> <<>>]

\* ------------------------------------------------------------ loader

\* OnLoadError rebinding only the two models.
OnLoadError_models_only ==
    /\ dt_model' = None
    /\ lr_model' = None
    /\ UNCHANGED <<scaler, metadata>>
    /\ pc' = "serving"

\* The except branch: every one of the four names is rebound to None.
OnLoadError ==
    /\ dt_model' = None
    /\ lr_model' = None
    /\ scaler' = None
    /\ metadata' = None
    /\ pc' = "serving"

LoadDT ==
    /\ pc = "load_dt"
    /\ \/ /\ \E a \in DTArtifacts : dt_model' = a
          /\ pc' = "load_lr"
          /\ UNCHANGED <<lr_model, scaler, metadata>>
       \/ OnLoadError
    /\ UNCHANGED <<request, response, calls>>

LoadLR ==
    /\ pc = "load_lr"
    /\ \/ /\ \E a \in LRArtifacts : lr_model' = a
          /\ pc' = "load_scaler"
          /\ UNCHANGED <<dt_model, scaler, metadata>>
       \/ OnLoadError
    /\ UNCHANGED <<request, response, calls>>

LoadScaler ==
    /\ pc = "load_scaler"
    /\ \/ /\ \E a \in ScalerArtifacts : scaler' = a
          /\ pc' = "load_metadata"
          /\ UNCHANGED <<dt_model, lr_model, metadata>>
       \/ OnLoadError
    /\ UNCHANGED <<request, response, calls>>

LoadMetadata ==
    /\ pc = "load_metadata"
    /\ \/ /\ \E d \in MetadataDocs : metadata' = d
          /\ pc' = "serving"
          /\ UNCHANGED <<dt_model, lr_model, scaler>>
       \/ OnLoadError
    /\ UNCHANGED <<request, response, calls>>

\* ------------------------------------------------------------ requests

\* FieldOK with gt/lt in place of ge/le.
FieldOK_exclusive(v) == FieldGe < v /\ v < FieldLe

\* IrisFeatures: four floats, each declared with ge=0, le=10.
FieldOK(v) == FieldGe <= v /\ v <= FieldLe

IrisFeaturesValid(f) ==
    /\ FieldOK(f.sepal_length)
    /\ FieldOK(f.sepal_width)
    /\ FieldOK(f.petal_length)
    /\ FieldOK(f.petal_width)

\* PredictionRequest: features is an IrisFeatures, model is any str.
PredictionRequestValid(req) == IrisFeaturesValid(req.features)

\* ------------------------------------------------------------ exceptions

HTTPException(status_code, detail) ==
    [type |-> "HTTPException", status_code |-> status_code, detail |-> detail]

\* Any other Python exception, with the message str() gives for it.
PyException(type, msg) == [type |-> type, status_code |-> 0, detail |-> msg]

\* str(e): an HTTPException prints as "<status_code>: <detail>".
Str(e) ==
    IF e.type = "HTTPException"
    THEN ToString(e.status_code) \o ": " \o e.detail
    ELSE e.detail

\* The outcome of a call: the exception it raises or the value it returns,
\* with the calls it made on the scaler and the models.
Raise(e, cs) == [raised |-> TRUE, exc |-> e, calls |-> cs]
Return(v, cs) == [raised |-> FALSE, result |-> v, calls |-> cs]

Call(fn, arg) == [fn |-> fn, arg |-> arg]

\* ------------------------------------------------------------ artifacts

\* scaler.transform: standardise each feature, (x - mean) / scale.
transform(s, x) ==
    [i \in 1..4 |-> ((x[i] - s.mean[i]) * 100) \div s.scale[i]]

\* The leaf (1..3) the classifier's rule puts the vector in.
Leaf(m, x) ==
    IF x[3] < m.thr[1] THEN 1 ELSE IF x[4] < m.thr[2] THEN 2 ELSE 3

\* model.predict(x)[0]: the class label of the leaf.
model_predict(m, x) == m.classes[Leaf(m, x)]

\* model.predict_proba(x)[0]: one probability per class, in classes_ order.
model_predict_proba(m, x) ==
    [i \in 1..Len(m.classes) |-> IF i = Leaf(m, x) THEN 90 ELSE 5]

\* ------------------------------------------------------------ Python

\* lst[i] for a Python list: negative i counts from the end; anything
\* outside -len..len-1 raises IndexError.
PyIndexOK(lst, i) == -Len(lst) <= i /\ i < Len(lst)
PyIndex(lst, i) == IF i >= 0 THEN lst[i + 1] ELSE lst[Len(lst) + i + 1]

Min(a, b) == IF a <= b THEN a ELSE b

\* zip(names, probs), as the ordered items of the dict built from it.
Zip(names, probs) ==
    [i \in 1..Min(Len(names), Len(probs)) |-> <<names[i], probs[i]>>]

\* max(probabilities)
MaxOf(probs) ==
    CHOOSE p \in {probs[i] : i \in 1..Len(probs)} :
        \A j \in 1..Len(probs) : probs[j] <= p

\* ------------------------------------------------------------ predict

\* Lines 160-165: the ordered feature vector.
FeaturesArray(req) ==
    << req.features.sepal_length, req.features.sepal_width,
       req.features.petal_length, req.features.petal_width >>

\* Select scaling for the decision tree too.
Select_always_scaled(req, features_array) ==
    IF req.model \in {"decision_tree", "logistic_regression"}
    THEN LET cs == <<Call("scaler.transform", features_array)>> IN
         IF scaler.broken
         THEN Raise(PyException("ValueError", "transform failed"), cs)
         ELSE Return([model |-> IF req.model = "decision_tree"
                                THEN dt_model ELSE lr_model,
                      features_to_use |-> transform(scaler, features_array)], cs)
    ELSE Raise(HTTPException(400,
             "Invalid model: " \o req.model
                 \o ". Choose 'decision_tree' or 'logistic_regression'"), <<>>)

\* Lines 169-179: pick the model and the vector it is given.
Select(req, features_array) ==
    IF req.model = "decision_tree"
    THEN Return([model |-> dt_model, features_to_use |-> features_array], <<>>)
    ELSE IF req.model = "logistic_regression"
    THEN LET cs == <<Call("scaler.transform", features_array)>> IN
         IF scaler = None
         THEN Raise(PyException("AttributeError",
                  "'NoneType' object has no attribute 'transform'"), <<>>)
         ELSE IF scaler.broken
         THEN Raise(PyException("ValueError", "transform failed"), cs)
         ELSE Return([model |-> lr_model,
                      features_to_use |-> transform(scaler, features_array)], cs)
    ELSE Raise(HTTPException(400,
             "Invalid model: " \o req.model
                 \o ". Choose 'decision_tree' or 'logistic_regression'"), <<>>)

\* Lines 185-201: the response built from the class index and the
\* probability vector.
Assemble(req, prediction_idx, probabilities, cs) ==
    IF metadata = None
    THEN Raise(PyException("TypeError",
             "'NoneType' object is not subscriptable"), cs)
    ELSE IF "target_names" \notin DOMAIN metadata
    THEN Raise(PyException("KeyError", "'target_names'"), cs)
    ELSE LET target_names == metadata.target_names IN
         IF ~PyIndexOK(target_names, prediction_idx)
         THEN Raise(PyException("IndexError", "list index out of range"), cs)
         ELSE Return([prediction |-> PyIndex(target_names, prediction_idx),
                      prediction_index |-> prediction_idx,
                      probabilities |-> Zip(target_names, probabilities),
                      model_used |-> req.model,
                      confidence |-> MaxOf(probabilities)], cs)

\* Lines 182-183: predict, then predict_proba, on the same vector.
Infer(req, model, features_to_use, cs) ==
    IF model = None
    THEN Raise(PyException("AttributeError",
             "'NoneType' object has no attribute 'predict'"), cs)
    ELSE LET c1 == Append(cs, Call(model.name \o ".predict", features_to_use))
             c2 == Append(c1, Call(model.name \o ".predict_proba",
                                   features_to_use))
         IN  IF model.broken = "predict"
             THEN Raise(PyException("ValueError", "predict failed"), c1)
             ELSE IF model.broken = "predict_proba"
             THEN Raise(PyException("ValueError", "predict_proba failed"), c2)
             ELSE Assemble(req, model_predict(model, features_to_use),
                           model_predict_proba(model, features_to_use), c2)

\* The body of the try statement, lines 168-201.
TryBlock(req) ==
    LET sel == Select(req, FeaturesArray(req)) IN
    IF sel.raised
    THEN sel
    ELSE Infer(req, sel.result.model, sel.result.features_to_use, sel.calls)

\* ExceptHandler dropping the cause.
ExceptHandler_no_cause(e) == HTTPException(500, "Prediction error")

\* Lines 203-204: except Exception as e.
ExceptHandler(e) == HTTPException(500, "Prediction error: " \o Str(e))

\* predict without the guard on the two models.
predict_unguarded(req) ==
    LET t == TryBlock(req) IN
    IF t.raised THEN Raise(ExceptHandler(t.exc), t.calls) ELSE t

\* async def predict(request)
predict(req) ==
    IF dt_model = None \/ lr_model = None
    THEN Raise(HTTPException(503, "Models not loaded"), <<>>)
    ELSE LET t == TryBlock(req) IN
         IF t.raised THEN Raise(ExceptHandler(t.exc), t.calls) ELSE t

\* ------------------------------------------------------------ batch

RECURSIVE BatchLoop(_, _, _, _)
\* The for loop of predict_batch from item i on; only HTTPException is
\* caught, any other exception leaves the handler.
BatchLoop(requests, i, results, cs) ==
    IF i > Len(requests)
    THEN Return(results, cs)
    ELSE LET o == predict(requests[i]) IN
         IF ~o.raised
         THEN BatchLoop(requests, i + 1,
                  Append(results, [success |-> TRUE, result |-> o.result]),
                  cs \o o.calls)
         ELSE IF o.exc.type = "HTTPException"
         THEN BatchLoop(requests, i + 1,
                  Append(results, [success |-> FALSE, error |-> o.exc.detail]),
                  cs \o o.calls)
         ELSE Raise(o.exc, cs \o o.calls)

RECURSIVE BatchLoopBreak(_, _, _, _)
\* BatchLoop leaving the loop at the first failed item.
BatchLoopBreak(requests, i, results, cs) ==
    IF i > Len(requests)
    THEN Return(results, cs)
    ELSE LET o == predict(requests[i]) IN
         IF ~o.raised
         THEN BatchLoopBreak(requests, i + 1,
                  Append(results, [success |-> TRUE, result |-> o.result]),
                  cs \o o.calls)
         ELSE Return(Append(results, [success |-> FALSE, error |-> o.exc.detail]),
                     cs \o o.calls)

predict_batch_break(requests) == BatchLoopBreak(requests, 1, <<>>, <<>>)

\* predict_batch refusing the whole batch when the models are missing.
predict_batch_guarded(requests) ==
    IF dt_model = None \/ lr_model = None
    THEN Raise(HTTPException(503, "Models not loaded"), <<>>)
    ELSE BatchLoop(requests, 1, <<>>, <<>>)

\* async def predict_batch(requests)
predict_batch(requests) == BatchLoop(requests, 1, <<>>, <<>>)

\* ------------------------------------------------------------ introspection

\* async def root()
root ==
    Return([message |-> "Iris Classification API", version |-> "1.0.0",
            endpoints |-> [predict |-> "/predict", models |-> "/models",
                           metadata |-> "/metadata", health |-> "/health"]],
           <<>>)

\* async def health_check()
health_check ==
    IF dt_model = None \/ lr_model = None
    THEN Raise(HTTPException(503, "Models not loaded"), <<>>)
    ELSE Return([status |-> "healthy", models_loaded |-> TRUE], <<>>)

\* ModelInfo(...) for one item of metadata["models"]
ModelInfo(item) ==
    [name |-> item.name,
     requires_scaling |-> item.data.requires_scaling,
     test_accuracy |-> item.data.metrics.test_accuracy,
     precision |-> item.data.metrics.precision,
     recall |-> item.data.metrics.recall,
     f1_score |-> item.data.metrics.f1_score]

\* async def get_models()
get_models ==
    IF metadata = None
    THEN Raise(HTTPException(503, "Metadata not loaded"), <<>>)
    ELSE Return([i \in 1..Len(metadata.models) |-> ModelInfo(metadata.models[i])],
                <<>>)

\* async def get_metadata()
get_metadata ==
    IF metadata = None
    THEN Raise(HTTPException(503, "Metadata not loaded"), <<>>)
    ELSE Return(metadata, <<>>)

\* ------------------------------------------------------------ HTTP layer

\* What the framework answers for a handler's outcome: the returned value,
\* the raised HTTPException's status and detail, or its own 500 for any
\* other exception.
Respond(endpoint, o) ==
    IF ~o.raised
    THEN [endpoint |-> endpoint, status |-> 200, body |-> o.result]
    ELSE IF o.exc.type = "HTTPException"
    THEN [endpoint |-> endpoint, status |-> o.exc.status_code,
          body |-> [detail |-> o.exc.detail]]
    ELSE [endpoint |-> endpoint, status |-> 500,
          body |-> [detail |-> "Internal Server Error"]]

FieldNames == {"sepal_length", "sepal_width", "petal_length", "petal_width"}

\* The fields of a body the schema rejects.
InvalidFields(req) == {f \in FieldNames : ~FieldOK(req.features[f])}

\* The 422 the framework answers before the handler is called.
Unprocessable(endpoint, locs) ==
    [endpoint |-> endpoint, status |-> 422, body |-> [detail |-> locs]]

\* ------------------------------------------------------------ inputs

Features(a, b, c, d) ==
    [sepal_length |-> a, sepal_width |-> b, petal_length |-> c, petal_width |-> d]

Setosa == Features(510, 350, 140, 20)
Versicolor == Features(600, 290, 450, 150)
Virginica == Features(630, 330, 600, 250)

\* Values at and just outside the schema bounds.
BoundaryValues == {FieldGe - 1, FieldGe, FieldLe, FieldLe + 1}

FeatureInputs ==
    {Setosa, Versicolor, Virginica}
        \cup {[Setosa EXCEPT ![f] = v] : f \in FieldNames, v \in BoundaryValues}

ModelNames == {"decision_tree", "logistic_regression", "svm"}

PredictBodies == [features : FeatureInputs, model : ModelNames]

BatchBodies ==
    [features : {Setosa, Virginica}, model : ModelNames]
        \cup {[features |-> [Setosa EXCEPT !.sepal_width = FieldLe + 1],
                model |-> "decision_tree"]}

BatchInputs == UNION {[1..n -> BatchBodies] : n \in 0..MaxBatch}

\* ------------------------------------------------------------ handlers

\* The loader is done and the response to the last request has been sent.
Idle == pc = "serving" /\ response = NoResponse

\* Handle dropping the models after a failed request.
Handle_dropping(endpoint, body, o) ==
    /\ request' = [endpoint |-> endpoint, body |-> body]
    /\ response' = Respond(endpoint, o)
    /\ calls' = o.calls
    /\ IF o.raised
       THEN dt_model' = None /\ lr_model' = None
       ELSE UNCHANGED <<dt_model, lr_model>>
    /\ UNCHANGED <<pc, scaler, metadata>>

\* A handler ran on a request: its outcome is the response; no handler
\* assigns a global.
Handle(endpoint, body, o) ==
    /\ request' = [endpoint |-> endpoint, body |-> body]
    /\ response' = Respond(endpoint, o)
    /\ calls' = o.calls
    /\ UNCHANGED <<pc, dt_model, lr_model, scaler, metadata>>

\* The schema rejected the body: no handler ran.
Reject(endpoint, body, locs) ==
    /\ request' = [endpoint |-> endpoint, body |-> body]
    /\ response' = Unprocessable(endpoint, locs)
    /\ calls' = <<>>
    /\ UNCHANGED <<pc, dt_model, lr_model, scaler, metadata>>

\* The framework sends the response; the handler's locals are gone.
SendResponse ==
    /\ pc = "serving"
    /\ response # NoResponse
    /\ request' = NoRequest
    /\ response' = NoResponse
    /\ calls' = <<>>
    /\ UNCHANGED <<pc, dt_model, lr_model, scaler, metadata>>

GetRoot ==
    /\ Idle
    /\ Handle("/", <<>>, root)

GetHealth ==
    /\ Idle
    /\ Handle("/health", <<>>, health_check)

GetModels ==
    /\ Idle
    /\ Handle("/models", <<>>, get_models)

GetMetadata ==
    /\ Idle
    /\ Handle("/metadata", <<>>, get_metadata)

PostPredict ==
    /\ Idle
    /\ \E body \in PredictBodies :
        IF PredictionRequestValid(body)
        THEN Handle("/predict", body, predict(body))
        ELSE Reject("/predict", body, InvalidFields(body))

PostPredictBatch ==
    /\ Idle
    /\ \E body \in BatchInputs :
        IF \A i \in 1..Len(body) : PredictionRequestValid(body[i])
        THEN Handle("/predict/batch", body, predict_batch(body))
        ELSE Reject("/predict/batch", body,
                 {<<i, f>> \in (1..Len(body)) \X FieldNames :
                      f \in InvalidFields(body[i])})

Init ==
    /\ pc = "load_dt"
    /\ dt_model = Unbound
    /\ lr_model = Unbound
    /\ scaler = Unbound
    /\ metadata = Unbound
    /\ request = NoRequest
    /\ response = NoResponse
    /\ calls = <<>>

Next ==
    \/ LoadDT
    \/ LoadLR
    \/ LoadScaler
    \/ LoadMetadata
    \/ GetRoot
    \/ GetHealth
    \/ GetModels
    \/ GetMetadata
    \/ PostPredict
    \/ PostPredictBatch
    \/ SendResponse

Spec == Init /\ [][Next]_vars

\* ------------------------------------------------------------ properties

\* The process is serving with at least one artifact unavailable.
Degraded ==
    /\ pc = "serving"
    /\ None \in {dt_model, lr_model, scaler, metadata}

\* The process is serving with both models loaded.
ModelsLoaded ==
    /\ pc = "serving"
    /\ dt_model # None
    /\ lr_model # None

\* The response at hand answers a POST /predict whose body passed the schema.
PredictAnswered ==
    /\ response.endpoint = "/predict"
    /\ \A f \in FieldNames :
           0 <= request.body.features[f] /\ request.body.features[f] <= 1000

\* The response at hand answers a POST /predict/batch whose every item
\* passed the schema.
BatchAnswered ==
    /\ response.endpoint = "/predict/batch"
    /\ \A i \in 1..Len(request.body) : \A f \in FieldNames :
           /\ 0 <= request.body[i].features[f]
           /\ request.body[i].features[f] <= 1000

RecognizedNames == {"decision_tree", "logistic_regression"}

\* The vector (sepal_length, sepal_width, petal_length, petal_width) of a body.
RawVector(body) ==
    << body.features.sepal_length, body.features.sepal_width,
       body.features.petal_length, body.features.petal_width >>

\* C1: with the models loaded, a schema-valid POST /predict naming a model
\* other than 'decision_tree' and 'logistic_regression' is answered with a
\* 4xx status, never a 5xx.
C1_InvalidModelIsClientError ==
    (ModelsLoaded /\ PredictAnswered
        /\ request.body.model \notin RecognizedNames)
    => (400 <= response.status /\ response.status <= 499)

C3_BatchEntryPerRequest ==
    BatchAnswered =>
        /\ response.status = 200
        /\ Len(response.body) = Len(request.body)
        /\ \A i \in 1..Len(request.body) :
               LET o == predict(request.body[i]) IN
               response.body[i] =
                   IF o.raised
                   THEN [success |-> FALSE, error |-> o.exc.detail]
                   ELSE [success |-> TRUE, result |-> o.result]

C3_Witness ==
    /\ BatchAnswered
    /\ Len(response.body) = 3
    /\ request.body[2].model = "svm"
    /\ response.body[1].success
    /\ ~response.body[2].success
    /\ response.body[3].success

\* C4: in predict the models are given the scaler-transformed vector exactly
\* when the selector is 'logistic_regression'; for 'decision_tree' they are
\* given the raw vector (sepal_length, sepal_width, petal_length,
\* petal_width) and the scaler is never called; predict and predict_proba
\* are given the same vector.
C4_ScalingIffLogisticRegression ==
    (ModelsLoaded /\ PredictAnswered) =>
        LET raw == RawVector(request.body) IN
        /\ request.body.model = "decision_tree" =>
               \A k \in 1..Len(calls) :
                   /\ calls[k].fn \in {"dt.predict", "dt.predict_proba"}
                   /\ calls[k].arg = raw
        /\ request.body.model = "logistic_regression" =>
               /\ Len(calls) >= 1
               /\ calls[1] = [fn |-> "scaler.transform", arg |-> raw]
               /\ \A k \in 2..Len(calls) :
                      /\ calls[k].fn \in {"lr.predict", "lr.predict_proba"}
                      /\ calls[k].arg = transform(scaler, raw)
                      /\ calls[k].arg # raw
        /\ response.status = 200 =>
               /\ Len(calls) >= 2
               /\ calls[Len(calls) - 1].fn
                      \in {"dt.predict", "lr.predict"}
               /\ calls[Len(calls)].fn
                      \in {"dt.predict_proba", "lr.predict_proba"}
               /\ calls[Len(calls) - 1].arg = calls[Len(calls)].arg

C4_Witness ==
    /\ ModelsLoaded
    /\ PredictAnswered
    /\ request.body.model = "logistic_regression"
    /\ response.status = 200
    /\ Len(calls) = 3

\* C5: once the loader is done the four globals are all loaded or all None,
\* so testing the two models tests all four; a failed load leaves the
\* process serving, it does not abort it.
C5_AllOrNothing ==
    /\ pc \in {"load_dt", "load_lr", "load_scaler", "load_metadata", "serving"}
    /\ pc = "serving" =>
           \/ /\ dt_model = None
              /\ lr_model = None
              /\ scaler = None
              /\ metadata = None
           \/ /\ dt_model.kind = "model"
              /\ lr_model.kind = "model"
              /\ scaler.kind = "scaler"
              /\ metadata.kind = "dict"

C5_Witness ==
    /\ pc = "serving"
    /\ dt_model = None
    /\ lr_model = None
    /\ scaler = None
    /\ metadata = None
    /\ response.endpoint = "/health"

\* C6: POST /predict is answered 422, with no call on the scaler or a
\* model, exactly when some feature is below 0 or above 10; a value of
\* exactly 0 or exactly 10 is accepted; the model name and the loaded
\* artifacts play no part.
C6_InclusiveBounds ==
    response.endpoint = "/predict" =>
        /\ response.status = 422 <=>
               \E f \in FieldNames :
                   \/ request.body.features[f] < 0
                   \/ request.body.features[f] > 1000
        /\ response.status = 422 => calls = <<>>

C6_Witness ==
    /\ response.endpoint = "/predict"
    /\ request.body.features.petal_width = 1000
    /\ request.body.features.sepal_length # 0
    /\ response.status = 200

\* C7: in every successful /predict response prediction_index is within
\* 0 .. len(target_names)-1 and prediction is target_names[prediction_index].
C7_IndexWithinTargetNames ==
    (response.endpoint = "/predict" /\ response.status = 200) =>
        /\ 0 <= response.body.prediction_index
        /\ response.body.prediction_index < Len(metadata.target_names)
        /\ response.body.prediction
               = metadata.target_names[response.body.prediction_index + 1]

\* C8: with the models loaded and a recognized selector, a failure raised by
\* the scaler's transform, the model's predict or predict_proba, or the
\* assembly of the response is answered 500 with the cause's message in the
\* detail, and the process goes on serving.
C8_FailureIsInternalError ==
    (ModelsLoaded /\ PredictAnswered
        /\ request.body.model \in RecognizedNames) =>
        LET t == TryBlock(request.body) IN
        t.raised =>
            /\ response.status = 500
            /\ response.body = [detail |-> "Prediction error: " \o t.exc.detail]
            /\ pc = "serving"
            /\ ENABLED SendResponse

C8_Witness ==
    /\ ModelsLoaded
    /\ PredictAnswered
    /\ request.body.model = "logistic_regression"
    /\ response.status = 500
    /\ response.body = [detail |-> "Prediction error: transform failed"]

\* C9: once the loader is done, no step of any handler changes dt_model,
\* lr_model, scaler or metadata, nor leaves the serving mode.
C9_GlobalsFrozenAfterStartup ==
    [][pc = "serving" => (globals' = globals /\ pc' = "serving")]_vars

C9_Witness ==
    /\ pc = "serving"
    /\ dt_model # None
    /\ response.endpoint = "/predict/batch"
    /\ response.status = 200
    /\ Len(response.body) = 2

\* C10: in degraded mode POST /predict/batch over N schema-valid requests
\* answers 200 with N entries, each exactly {success: false,
\* error: 'Models not loaded'}: no entry carries a status code.
C10_DegradedBatchAnswersPerItem ==
    (Degraded /\ BatchAnswered) =>
        /\ response.status = 200
        /\ Len(response.body) = Len(request.body)
        /\ \A i \in 1..Len(response.body) :
               /\ response.body[i]
                      = [success |-> FALSE, error |-> "Models not loaded"]
               /\ DOMAIN response.body[i] = {"success", "error"}

C10_Witness ==
    /\ Degraded
    /\ BatchAnswered
    /\ response.status = 200
    /\ Len(response.body) = 3
====
